---- MODULE Spec2Model ----
(***************************************************************************)
(* Model of pyscal/utils.py.                                               *)
(*                                                                         *)
(* The monotonicity engine: df2str, modify_dframe_monotonocity,            *)
(* clip_accumulate, check_limits, rows_to_be_fixed, check_almost_monotone, *)
(* validate_monotonocity_arg (specifications Spec, SpecTwice, SpecFunc).   *)
(*                                                                         *)
(* The curve functions: normalize_nonlinpart_wo / _go, normalize_pc,       *)
(* _interpolate_tags, interpolate_wo, interpolate_go and the deprecated    *)
(* interpolator (SpecInterp), and crosspoint, estimate_diffjumppoint and   *)
(* normalize_pc called on their own (SpecCalls).                           *)
(*                                                                         *)
(* Numbers.  A float of the program is an IEEE double, held as sign, odd   *)
(* significand and binary exponent, the significand a natural number of    *)
(* any size.  Sums, differences, products and quotients are rounded to    *)
(* the nearest double, a tie to the even significand, as the hardware      *)
(* rounds them.  Round is numpy's round (multiply, rint, divide, each in   *)
(* floats).  Format is the "%1.<digits>f" conversion, which rounds the     *)
(* exact value of the double.  Literals of the inputs are written as       *)
(* integer counts of 10^-8 and read as Python reads them.  The infinities  *)
(* and the ends of the exponent range are left out; NaN is a cell without  *)
(* a number in the frames of crosspoint and interpolator, and takes part   *)
(* in no arithmetic.                                                       *)
(*                                                                         *)
(* Tables.  A dataframe is a function from column names to columns, a      *)
(* column a sequence of floats.  A monotonocity argument is a Python       *)
(* dict: a function from column names to per-column dicts, which are       *)
(* functions from keys to values, together with the order in which the     *)
(* dict yields its keys.  True and False are 1 and 0, as in Python.        *)
(***************************************************************************)
EXTENDS Integers, Sequences, FiniteSets

VARIABLES
    dframe,        \* the caller's DataFrame object (its cells)
    monotonocity,  \* the monotonocity argument
    keys,          \* the order in which the monotonocity dict yields its keys
    digits,        \* the digits argument
    copy,          \* the DataFrame object made by dframe.round(digits + 1)
    ref,           \* the object the local name dframe of the fixer is bound to
    pc,            \* position in df2str / modify_dframe_monotonocity
    idx,           \* position of the column loops in the dict's key order
    constants,     \* boolean series of the rows still to be fixed
    iterations,    \* the counter of the while loop
    passes,        \* history: executions of the nudge-and-clip body, this column
    err,           \* the exception raised ("" when none)
    result,        \* the value returned by the function called
    output,        \* the cells df2str prints, in units of 10^-digits
    pass,          \* 1 on the first application of the fixer, 2 on the second
    first,         \* the table returned by the first application
    fn,            \* the curve function called ("" when none)
    low,           \* the curve object wo_low / go_low
    high,          \* the curve object wo_high / go_high
    parameter,     \* the parameter argument, in units of 1 / Unit
    tag,           \* the tag argument
    normalizers,   \* the normalizer functions built so far
    new,           \* the curve object wo_new / go_new
    curve,         \* the curve argument of normalize_pc, tableobject of interpolator
    args,          \* the other arguments of a function called on its own
    intdf          \* the merged table of interpolator

vars == <<dframe, monotonocity, keys, digits, copy, ref, pc, idx, constants,
          iterations, passes, err, result, output, pass, first,
          fn, low, high, parameter, tag, normalizers, new, curve, args,
          intdf>>

\* the state of the monotonicity engine
fixer_vars == <<dframe, monotonocity, keys, digits, copy, ref, idx, constants,
                iterations, passes, output, pass, first>>

\* the state of the curve functions
curve_vars == <<fn, low, high, parameter, tag, normalizers, new, curve, args,
                intdf>>

----------------------------------------------------------------------------
(* Integers *)

\* literals of the inputs are written as integer counts of 10^-8
One == 10 ^ 8

Milli == One \div 1000

Abs(x) == IF x < 0 THEN -x ELSE x

Min2(a, b) == IF a <= b THEN a ELSE b

\* 10 ** n
Pow10(n) == 10 ^ n

MantissaBits == 52

----------------------------------------------------------------------------
(* Natural numbers of any size, for the 53-bit significands of doubles:    *)
(* sequences of limbs in base 2^15, least significant limb first, without  *)
(* leading zero limbs (zero is the empty sequence).                        *)

LimbBits == 15

Base == 2 ^ LimbBits

RECURSIVE Big(_)
Big(n) == IF n = 0 THEN <<>> ELSE <<n % Base>> \o Big(n \div Base)

RECURSIVE BNorm(_)
BNorm(a) ==
    IF a = <<>> THEN <<>>
    ELSE IF a[Len(a)] = 0 THEN BNorm(SubSeq(a, 1, Len(a) - 1))
    ELSE a

Limb(a) == IF a = <<>> THEN 0 ELSE Head(a)

Rest(a) == IF a = <<>> THEN <<>> ELSE Tail(a)

RECURSIVE BAddC(_, _, _)
BAddC(a, b, c) ==
    IF a = <<>> /\ b = <<>> THEN Big(c)
    ELSE LET x == Limb(a) + Limb(b) + c
         IN  <<x % Base>> \o BAddC(Rest(a), Rest(b), x \div Base)

BAdd(a, b) == BAddC(a, b, 0)

\* a - b - c for a >= b + c
RECURSIVE BSubC(_, _, _)
BSubC(a, b, c) ==
    IF a = <<>> THEN <<>>
    ELSE LET x == Limb(a) - Limb(b) - c
         IN  IF x < 0 THEN <<x + Base>> \o BSubC(Rest(a), Rest(b), 1)
             ELSE <<x>> \o BSubC(Rest(a), Rest(b), 0)

BSub(a, b) == BNorm(BSubC(a, b, 0))

\* a * k + c for a limb k
RECURSIVE BMulC(_, _, _)
BMulC(a, k, c) ==
    IF a = <<>> THEN Big(c)
    ELSE LET x == Head(a) * k + c
         IN  <<x % Base>> \o BMulC(Tail(a), k, x \div Base)

BMulS(a, k) == IF k = 0 THEN <<>> ELSE BMulC(a, k, 0)

\* a * Base
BUp(a) == IF a = <<>> THEN <<>> ELSE <<0>> \o a

RECURSIVE BMul(_, _)
BMul(a, b) ==
    IF a = <<>> \/ b = <<>> THEN <<>>
    ELSE BAdd(BMulS(a, Head(b)), BUp(BMul(a, Tail(b))))

\* -1, 0, 1 as a < b, a = b, a > b
RECURSIVE BCmp(_, _)
BCmp(a, b) ==
    IF Len(a) # Len(b) THEN (IF Len(a) < Len(b) THEN -1 ELSE 1)
    ELSE IF a = <<>> THEN 0
    ELSE IF a[Len(a)] # b[Len(b)] THEN (IF a[Len(a)] < b[Len(b)] THEN -1 ELSE 1)
    ELSE BCmp(SubSeq(a, 1, Len(a) - 1), SubSeq(b, 1, Len(b) - 1))

\* quotient and remainder of r * Base^Len(a) + a by k, for r < k <= 2 * Base
RECURSIVE BDivC(_, _, _)
BDivC(a, k, r) ==
    IF a = <<>> THEN [q |-> <<>>, r |-> r]
    ELSE LET x == r * Base + a[Len(a)]
             d == BDivC(SubSeq(a, 1, Len(a) - 1), k, x % k)
         IN  [q |-> d.q \o <<x \div k>>, r |-> d.r]

BDivS(a, k) == BNorm(BDivC(a, k, 0).q)

RECURSIVE Zeros(_)
Zeros(n) == IF n = 0 THEN <<>> ELSE <<0>> \o Zeros(n - 1)

\* a * 2^n
BShl(a, n) ==
    IF a = <<>> THEN <<>>
    ELSE BMulS(Zeros(n \div LimbBits) \o a, 2 ^ (n % LimbBits))

\* a \div 2^n
BShr(a, n) ==
    IF Len(a) <= n \div LimbBits THEN <<>>
    ELSE BDivS(SubSeq(a, n \div LimbBits + 1, Len(a)), 2 ^ (n % LimbBits))

RECURSIVE Bits(_)
Bits(n) == IF n = 0 THEN 0 ELSE 1 + Bits(n \div 2)

BitLen(a) == IF a = <<>> THEN 0 ELSE LimbBits * (Len(a) - 1) + Bits(a[Len(a)])

RECURSIVE TrailingZeros(_)
TrailingZeros(n) == IF n % 2 = 1 THEN 0 ELSE 1 + TrailingZeros(n \div 2)

\* number of trailing zero bits of a # 0
RECURSIVE BTrailing(_)
BTrailing(a) ==
    IF Head(a) = 0 THEN LimbBits + BTrailing(Tail(a)) ELSE TrailingZeros(Head(a))

----------------------------------------------------------------------------
(* Doubles.  A double is sign * m * 2^e, held with m odd so that equal     *)
(* doubles are equal records; the values of the curves are far from the    *)
(* ends of the exponent range, which is left out.  +0.0 and -0.0 are one   *)
(* value, as they are for == and <=.                                       *)

Zero == [sign |-> 0, m |-> <<>>, e |-> 0]

\* the only element of a set of one element.  An operation takes its
\* operands and its intermediate results from such sets, {f(v) : v \in {e}}:
\* e is evaluated once, and v is its value.
the(S) == CHOOSE r \in S : S = {r}

\* sign * m * 2^e with m made odd
Canon(sign, m, e) ==
    the({IF v = <<>> \/ sign = 0 THEN Zero
         ELSE [sign |-> sign, m |-> BShr(v, BTrailing(v)), e |-> e + BTrailing(v)] :
            v \in {m}})

\* the natural number nearest to m / 2^d, d > 0, a tie to the even one:
\* h is m / 2^(d - 1), its last bit the half
RoundBits(m, d) ==
    the({IF Limb(h) % 2 = 1 /\ (BShl(h, d - 1) # m \/ Limb(BShr(h, 1)) % 2 = 1)
         THEN BAdd(BShr(h, 1), <<1>>)
         ELSE BShr(h, 1) :
            h \in {BShr(m, d - 1)}})

\* the double nearest to s.sign * s.m * 2^s.e, a tie to the even significand
Nearest(s) ==
    the({IF BitLen(v.m) <= MantissaBits + 1 THEN Canon(v.sign, v.m, v.e)
         ELSE Canon(v.sign, RoundBits(v.m, BitLen(v.m) - (MantissaBits + 1)),
                    v.e + BitLen(v.m) - (MantissaBits + 1)) :
            v \in {s}})

Neg(x) == [x EXCEPT !.sign = -@]

\* x + y, not rounded: a and b are the significands at the smaller exponent
Sum(x, y) ==
    IF x.sign = 0 THEN y
    ELSE IF y.sign = 0 THEN x
    ELSE the({IF x.sign = y.sign
              THEN [sign |-> x.sign, m |-> BAdd(a, b), e |-> Min2(x.e, y.e)]
              ELSE IF BCmp(a, b) = 0 THEN Zero
              ELSE IF BCmp(a, b) > 0
              THEN [sign |-> x.sign, m |-> BSub(a, b), e |-> Min2(x.e, y.e)]
              ELSE [sign |-> y.sign, m |-> BSub(b, a), e |-> Min2(x.e, y.e)] :
                a \in {BShl(x.m, x.e - Min2(x.e, y.e))},
                b \in {BShl(y.m, y.e - Min2(x.e, y.e))}})

\* x * y, not rounded
Product(x, y) == [sign |-> x.sign * y.sign, m |-> BMul(x.m, y.m), e |-> x.e + y.e]

\* the float operations +, -, *
FAdd(x, y) == the({Nearest(Sum(a, b)) : a \in {x}, b \in {y}})

FSub(x, y) == FAdd(x, Neg(y))

FMul(x, y) == the({Nearest(Product(a, b)) : a \in {x}, b \in {y}})

\* the digit of the quotient of r by m: the guess, lowered until it fits
RECURSIVE BDigit(_, _, _)
BDigit(r, m, guess) ==
    IF BCmp(BMulS(m, guess), r) > 0 THEN BDigit(r, m, guess - 1) ELSE guess

\* quotient and remainder of a by m, the top limb of m at least Base / 2,
\* limb by limb from the top.  One step: the remainder d.r of the limbs
\* above takes the next limb, r < m * Base, and the digit g is guessed from
\* the two top limbs of r by the top limb of m
BStep(limb, d, m) ==
    the({the({[q |-> <<g>> \o d.q, r |-> BSub(r, BMulS(m, g))] :
                g \in {BDigit(r, m,
                           Min2(((IF Len(r) > Len(m) THEN r[Len(m) + 1] * Base ELSE 0)
                                    + (IF Len(r) >= Len(m) THEN r[Len(m)] ELSE 0))
                                   \div m[Len(m)],
                                Base - 1))}}) :
            r \in {BNorm(<<limb>> \o d.r)}})

RECURSIVE BLong(_, _)
BLong(a, m) ==
    IF a = <<>> THEN [q |-> <<>>, r |-> <<>>]
    ELSE the({BStep(Head(a), d, m) : d \in {BLong(Tail(a), m)}})

\* the float operation /, y not zero: the quotient of the significands to
\* 56 bits (x shifted by s, and both by t to bring the top limb of y to
\* Base / 2), then a last bit that is 1 when a remainder was left, rounded
FDiv(x, y) ==
    the({IF a.sign = 0 THEN Zero
         ELSE LET s == MantissaBits + 4 + BitLen(b.m) - BitLen(a.m)
                  t == (LimbBits - (BitLen(b.m) % LimbBits)) % LimbBits
              IN  Nearest(the({[sign |-> a.sign * b.sign,
                                m    |-> BAdd(BShl(BNorm(d.q), 1),
                                              IF d.r # <<>> THEN <<1>> ELSE <<>>),
                                e    |-> a.e - b.e - s - 1] :
                                 d \in {BLong(n, m) : n \in {BShl(a.m, s + t)},
                                                      m \in {BShl(b.m, t)}}})) :
            a \in {x}, b \in {y}})

\* -1, 0, 1 as x < y, x == y, x > y
FCmp(x, y) == the({Sum(a, Neg(b)).sign : a \in {x}, b \in {y}})

----------------------------------------------------------------------------
(* Float arithmetic of the monotonicity engine *)

\* float(n) of an int
Float(n) == IF n = 0 THEN Zero ELSE Canon(IF n < 0 THEN -1 ELSE 1, Big(Abs(n)), 0)

\* quotient of a by 5^n, and whether a remainder was left
RECURSIVE BDiv5(_, _)
BDiv5(a, n) ==
    IF n = 0 THEN [q |-> a, s |-> FALSE]
    ELSE LET j    == Min2(n, 6)
             d    == BDivC(a, 5 ^ j, 0)
             rest == BDiv5(BNorm(d.q), n - j)
         IN  [q |-> rest.q, s |-> rest.s \/ d.r # 0]

\* the double nearest to sign * m * 2^e / 5^n, n <= 12
Ratio5(sign, m, e, n) ==
    IF m = <<>> \/ sign = 0 THEN Zero
    ELSE Nearest(the({[sign |-> sign,
                       m    |-> BAdd(BShl(d.q, 1), IF d.s THEN <<1>> ELSE <<>>),
                       e    |-> e - 6 * LimbBits - 1] :
                        d \in {BDiv5(Zeros(6) \o m, n)}}))

\* the float of a literal with at most 8 decimals, k * 10^-8
Lit(k) ==
    Ratio5(IF k < 0 THEN -1 ELSE IF k = 0 THEN 0 ELSE 1, Big(Abs(k)), -8, 8)

\* x / 10.0 ** n: 10.0 ** n is the exact float of 10^n
DivPow10(x, n) == the({Ratio5(a.sign, a.m, a.e - n, n) : a \in {x}})

\* pyscal.constants.EPSILON
epsilon == Lit(1)

Lt(x, y) == FCmp(x, y) < 0

Gt(x, y) == FCmp(x, y) > 0

Le(x, y) == FCmp(x, y) <= 0

Ge(x, y) == FCmp(x, y) >= 0

FAbs(x) == [x EXCEPT !.sign = Abs(@)]

FMax(x, y) == the({IF Ge(a, b) THEN a ELSE b : a \in {x}, b \in {y}})

FMin(x, y) == the({IF Le(a, b) THEN a ELSE b : a \in {x}, b \in {y}})

\* np.rint: the nearest integer, a half to the even one
rint(x) ==
    the({IF a.e >= 0 THEN a ELSE Canon(a.sign, RoundBits(a.m, -a.e), 0) : a \in {x}})

\* numpy's round(x, n) as pandas' Series.round / DataFrame.round apply it:
\* np.rint(x * 10**n) / 10**n, each step in floats
Round(x, n) == DivPow10(rint(FMul(x, Float(Pow10(n)))), n)

sround(series, n) == [i \in 1..Len(series) |-> Round(series[i], n)]

\* DataFrame.round(n): every column rounded, in a new object
dfround(frame, n) == [c \in DOMAIN frame |-> sround(frame[c], n)]

\* the int of a natural number below 2^31
RECURSIVE BInt(_)
BInt(a) == IF a = <<>> THEN 0 ELSE Head(a) + Base * BInt(Tail(a))

\* float_format % x with float_format = "%1.<n>f": the printed number in
\* units of 10^-n.  The conversion rounds the exact value of the double, a
\* half to the even digit; "-0.00" and "0.00" are both 0.
Format(x, n) ==
    the({r.sign * BInt(BShl(r.m, r.e)) : r \in {rint(Product(x, Float(Pow10(n))))}})

roundlevel == 9

\* dframe.round(roundlevel).to_csv(float_format=...): the printed cells
to_csv(frame, n) ==
    [c \in DOMAIN frame |->
        [i \in 1..Len(frame[c]) |-> Format(Round(frame[c][i], roundlevel), n)]]

----------------------------------------------------------------------------
(* Series helpers *)

\* series.diff() without its first (NaN) row: diff(s)[i] is row i+1 - row i
diff(series) == [i \in 1..(Len(series) - 1) |-> FSub(series[i + 1], series[i])]

any(bools) == \E i \in 1..Len(bools) : bools[i]

Has(d, key) == key \in DOMAIN d

\* Series.min() / Series.max() of a series with at least one number
smin(series) ==
    CHOOSE x \in {series[i] : i \in 1..Len(series)} :
        \A i \in 1..Len(series) : Le(x, series[i])

smax(series) ==
    CHOOSE x \in {series[i] : i \in 1..Len(series)} :
        \A i \in 1..Len(series) : Ge(x, series[i])

----------------------------------------------------------------------------
(* clip_accumulate *)

\* no running maximum or minimum is taken
accumulate_skipped(series, increasing) == series

\* np.maximum.accumulate / np.minimum.accumulate
accumulate(series, increasing) ==
    LET acc[i \in 1..Len(series)] ==
            IF i = 1 THEN series[1]
            ELSE IF increasing THEN FMax(acc[i - 1], series[i])
                 ELSE FMin(acc[i - 1], series[i])
    IN  [i \in 1..Len(series) |-> acc[i]]

\* Series.clip(lower=, upper=)
clip(series, haslower, lower, hasupper, upper) ==
    [i \in 1..Len(series) |->
        LET a == IF haslower THEN FMax(series[i], lower) ELSE series[i]
        IN  IF hasupper THEN FMin(a, upper) ELSE a]

\* the upper limit is dropped when both limits are given
clip_accumulate_lower_only(series, mono) ==
    LET s == accumulate(series, mono["sign"].sign > 0)
    IN  IF Has(mono, "lower") THEN clip(s, TRUE, mono["lower"], FALSE, Zero)
        ELSE IF Has(mono, "upper") THEN clip(s, FALSE, Zero, TRUE, mono["upper"])
        ELSE s

clip_accumulate(series, mono) ==
    LET s == accumulate(series, mono["sign"].sign > 0)
    IN  IF Has(mono, "lower") /\ Has(mono, "upper")
            THEN clip(s, TRUE, mono["lower"], TRUE, mono["upper"])
        ELSE IF Has(mono, "lower") THEN clip(s, TRUE, mono["lower"], FALSE, Zero)
        ELSE IF Has(mono, "upper") THEN clip(s, FALSE, Zero, TRUE, mono["upper"])
        ELSE s

----------------------------------------------------------------------------
(* check_limits: TRUE when it raises *)

\* a value equal to a limit is refused
check_limits_strict(series, mono) ==
    IF Len(series) = 0 THEN FALSE
    ELSE \/ Has(mono, "upper")
              /\ \E i \in 1..Len(series) : Ge(series[i], mono["upper"])
         \/ Has(mono, "lower")
              /\ \E i \in 1..Len(series) : Le(series[i], mono["lower"])

check_limits(series, mono) ==
    IF Len(series) = 0 THEN FALSE
    ELSE \/ Has(mono, "upper")
              /\ \E i \in 1..Len(series) : Gt(series[i], mono["upper"])
         \/ Has(mono, "lower")
              /\ \E i \in 1..Len(series) : Lt(series[i], mono["lower"])

----------------------------------------------------------------------------
(* rows_to_be_fixed *)

\* 1.0 / 10.0 ** n
allowance(n) == IF n >= 0 THEN DivPow10(Float(1), n) ELSE Float(Pow10(-n))

\* 1.0 / 10.0 ** n - epsilon
accuracy(n) == FSub(allowance(n), epsilon)

\* constants at the limits are not allowed
rows_to_be_fixed_no_limits(series, column_monotonocity, n, sign) ==
    LET r == sround(series, n + 1)
    IN  [i \in 1..Len(series) |->
            IF i = 1 THEN FALSE
            ELSE IF sign.sign > 0 THEN Lt(FSub(r[i], r[i - 1]), accuracy(n))
            ELSE Gt(FSub(r[i], r[i - 1]), Neg(accuracy(n)))]

rows_to_be_fixed(series, column_monotonocity, n, sign) ==
    LET r == sround(series, n + 1)
        small(i) == IF i = 1 THEN FALSE      \* the first diff is NaN
                    ELSE IF sign.sign > 0 THEN Lt(FSub(r[i], r[i - 1]), accuracy(n))
                    ELSE Gt(FSub(r[i], r[i - 1]), Neg(accuracy(n)))
    IN  [i \in 1..Len(series) |->
            /\ small(i)
            /\ Has(column_monotonocity, "upper")
                  => Lt(series[i], FSub(column_monotonocity["upper"], accuracy(n)))
            /\ Has(column_monotonocity, "lower")
                  => Gt(series[i], FAdd(column_monotonocity["lower"], accuracy(n)))]

----------------------------------------------------------------------------
(* check_almost_monotone: TRUE when it raises *)

\* the allowance is the accuracy of the output, not ten times it
check_almost_monotone_tight(series, n, sign) ==
    LET d == diff(series)
    IN  IF Len(d) = 0 THEN FALSE
        ELSE IF sign.sign > 0 THEN Lt(smin(d), Neg(allowance(n)))
        ELSE Gt(smax(d), allowance(n))

\* the minimum or maximum of an all-NaN diff is NaN, and compares False
check_almost_monotone(series, n, sign) ==
    LET d == diff(series)
    IN  IF Len(d) = 0 THEN FALSE
        ELSE IF sign.sign > 0 THEN Lt(smin(d), Neg(allowance(n - 1)))
        ELSE Gt(smax(d), allowance(n - 1))

----------------------------------------------------------------------------
(* validate_monotonocity_arg: TRUE when it raises *)

valid_keys == {"sign", "upper", "lower", "allowzero"}

validate_column(mono, col, dframe_colnames) ==
    \/ ~(DOMAIN mono[col] \subseteq valid_keys)
    \/ col \notin dframe_colnames
    \/ ~Has(mono[col], "sign")
    \/ Gt(FAbs(mono[col]["sign"]), Float(1))
    \/ Has(mono[col], "allowzero") /\ mono[col]["allowzero"] \notin {1, 0}

validate_monotonocity_arg(mono, dframe_colnames) ==
    \E col \in DOMAIN mono : validate_column(mono, col, dframe_colnames)

----------------------------------------------------------------------------
(* modify_dframe_monotonocity: the parts of its body *)

\* lines 129-136: the first exception of the check loop, "" when none;
\* cols is the dict's iteration order
RECURSIVE check_columns(_, _, _, _)
check_columns(frame, mono, n, cols) ==
    IF cols = <<>> THEN ""
    ELSE LET col == Head(cols)
         IN  IF check_almost_monotone(frame[col], n, mono[col]["sign"])
                 THEN "almost_monotone"
             ELSE IF check_limits(frame[col], mono[col]) THEN "limits"
             ELSE check_columns(frame, mono, n, Tail(cols))

\* lines 144-148: the column is left alone as an all-zero column.
\* abs().max() of an empty column is NaN, and compares False.
allowzero_skip(series, column_monotonocity, n) ==
    /\ Has(column_monotonocity, "allowzero")
    /\ Len(series) > 0
    /\ Lt(smax([i \in 1..Len(series) |-> FAbs(series[i])]), accuracy(n))
    /\ column_monotonocity["allowzero"] # 0

budget_off_by_one(n) == 2 * n + 1

\* line 154: the iteration budget of a column of n rows
budget(n) == 2 * n

rounding_coarse(n) == n - 1

\* line 126: the decimals the table is rounded to before it is fixed
rounding(n) == n + 1

\* lines 157-159: the flagged rows become
\* (value + sign / 10.0 ** digits) - epsilon
nudge(series, flags, n, sign) ==
    [i \in 1..Len(series) |->
        IF flags[i] THEN FSub(FAdd(series[i], DivPow10(sign, n)), epsilon)
        ELSE series[i]]

\* lines 179-186: TRUE when the final check raises
final_check(series, n, sign) ==
    LET d == diff(sround(series, n))
    IN  IF sign.sign > 0 THEN \E i \in 1..Len(d) : Lt(d[i], Neg(allowance(n)))
        ELSE \E i \in 1..Len(d) : Gt(d[i], allowance(n))

----------------------------------------------------------------------------
(* Inputs *)

MaxLen == 3

\* the cells a caller writes into a column
Values ==
    {Lit(k) : k \in {-9 * Milli, 0, 5 * Milli, 6 * Milli, 20 * Milli, 100 * Milli,
                     999 * Milli, 1200 * Milli}}

Digits == {1, 2}

\* columns on which the rounding of the floats decides what the code does
SensitiveColumns ==
    { <<Lit(40000000), Lit(30000000)>>,
      <<Lit(30000000), Lit(40000000)>>,
      <<Lit(4000000), Lit(3000000)>>,
      <<Lit(100000000), Lit(99400000)>>,
      <<Lit(54500000), Lit(57500000)>>,
      <<Lit(101500000), Lit(101500000)>> }

\* the default of the digits argument of df2str, and columns with rows
\* that differ in the 7th and 8th decimal
DefaultDigits == 7

DefaultColumns ==
    UNION {[1..n -> {Lit(k) : k \in {10000000, 10000009, 10000010, 100000000}}] :
              n \in 0..2}

\* the column of the docstring of modify_dframe_monotonocity
ExampleColumn ==
    [i \in 1..10 |->
        Lit(<<0, 20000, 1000000, 1000100, 1000010, 1000000,
              99000000, 99900000, 100010000, 100000000>>[i])]

\* a table with the column PC and a column KRW of 0.5
MakeFrame(s) == [PC |-> s, KRW |-> [i \in 1..Len(s) |-> Lit(One \div 2)]]

Frames ==
    {MakeFrame(s) : s \in UNION {[1..n -> Values] : n \in 0..MaxLen} \cup SensitiveColumns}

\* the signs +1 and -1
Up == Float(1)
Down == Float(-1)

inc == [sign |-> Up]
dec == [sign |-> Down]
inc01 == [sign |-> Up, lower |-> Float(0), upper |-> Float(1)]
dec01 == [sign |-> Down, lower |-> Float(0), upper |-> Float(1)]

ColumnSpecs ==
    { inc, dec, inc01, dec01,
      [sign |-> Up, allowzero |-> 1],
      [sign |-> Down, lower |-> Float(0), allowzero |-> 0],
      [sign |-> Float(0)],
      [sign |-> Lit(One \div 2)],
      [sign |-> Float(2)],
      [upper |-> Float(1)],
      [sign |-> Up, weight |-> 1],
      [sign |-> Up, allowzero |-> 2],
      [sign |-> Down, upper |-> Float(1)],
      [sign |-> Float(0), lower |-> Float(0)],
      [sign |-> Up, upper |-> FDiv(Lit(39999999), Float(2))] }

DefaultArgs == {[PC |-> inc], [PC |-> dec], [PC |-> inc01]}

MonoArgs ==
    {[PC |-> s] : s \in ColumnSpecs}
    \cup { [KRW |-> [sign |-> Float(0)], PC |-> inc],
           [KRW |-> dec01, PC |-> inc01],
           [KRW |-> inc01],
           [X |-> inc] }

\* the orders in which a dict with the keys S can yield them
Orders(S) ==
    {s \in [1..Cardinality(S) -> S] : \A i, j \in DOMAIN s : i # j => s[i] # s[j]}

NoFrame == [none |-> <<>>]

\* no curve object
NoCurve == [none |-> <<>>]

\* no curve function is under way
IdleCurves ==
    /\ fn = ""
    /\ low = NoCurve
    /\ high = NoCurve
    /\ parameter = 0
    /\ tag = ""
    /\ normalizers = <<>>
    /\ new = NoCurve
    /\ curve = NoCurve
    /\ args = <<>>
    /\ intdf = NoFrame

----------------------------------------------------------------------------
(* df2str with a monotonocity argument, and the fixer it calls *)

\* the DataFrame the local name dframe of the fixer refers to
Cur == IF ref = "caller" THEN dframe ELSE copy

\* an assignment through the local name
Store(frame) ==
    IF ref = "caller" THEN dframe' = frame /\ copy' = copy
    ELSE copy' = frame /\ dframe' = dframe

round_in_place == "caller"

\* line 126: dframe.round() returns a new object, to which the local name
\* is rebound
round_target == "copy"

Init ==
    /\ \/ dframe \in Frames /\ monotonocity \in MonoArgs /\ digits \in Digits
       \/ dframe = MakeFrame(ExampleColumn) /\ monotonocity = [PC |-> inc01]
            /\ digits = 2
       \/ dframe \in {MakeFrame(s) : s \in DefaultColumns}
            /\ monotonocity \in DefaultArgs
            /\ digits = DefaultDigits
    /\ keys \in Orders(DOMAIN monotonocity)
    /\ copy = NoFrame
    /\ ref = "caller"
    /\ pc = "call"
    /\ idx = 1
    /\ constants = <<>>
    /\ iterations = 0
    /\ passes = 0
    /\ err = ""
    /\ result = NoFrame
    /\ output = NoFrame
    /\ pass = 1
    /\ first = NoFrame
    /\ IdleCurves

Raise(kind) == pc' = "raised" /\ err' = kind

\* line 117
Validate ==
    /\ pc = "call"
    /\ IF validate_monotonocity_arg(monotonocity, DOMAIN dframe)
       THEN Raise("validate")
       ELSE pc' = "round" /\ err' = err
    /\ UNCHANGED <<dframe, monotonocity, keys, digits, copy, ref, idx, constants,
                   iterations, passes, result, output, pass, first>>
    /\ UNCHANGED curve_vars

\* line 126
RoundCopy ==
    /\ pc = "round"
    /\ ref' = round_target
    /\ IF round_target = "caller"
       THEN dframe' = dfround(Cur, rounding(digits)) /\ copy' = copy
       ELSE copy' = dfround(Cur, rounding(digits)) /\ dframe' = dframe
    /\ pc' = "check"
    /\ UNCHANGED <<monotonocity, keys, digits, idx, constants, iterations, passes,
                   err, result, output, pass, first>>
    /\ UNCHANGED curve_vars

\* lines 129-136
Check ==
    /\ pc = "check"
    /\ LET e == check_columns(Cur, monotonocity, digits, keys)
       IN  IF e # "" THEN Raise(e) ELSE pc' = "fix" /\ err' = err
    /\ idx' = 1
    /\ UNCHANGED <<dframe, monotonocity, keys, digits, copy, ref, constants,
                   iterations, passes, result, output, pass, first>>
    /\ UNCHANGED curve_vars

\* lines 139-151: the next column of the fix loop
Prepare ==
    /\ pc = "fix"
    /\ idx <= Len(keys)
    /\ LET col  == keys[idx]
           sign == monotonocity[col]["sign"]
       IN  IF allowzero_skip(Cur[col], monotonocity[col], digits)
           THEN /\ idx' = idx + 1
                /\ UNCHANGED <<pc, constants, iterations, passes>>
           ELSE /\ constants' = rows_to_be_fixed(Cur[col], monotonocity[col], digits, sign)
                /\ iterations' = 0
                /\ passes' = 0
                /\ pc' = "while"
                /\ idx' = idx
    /\ UNCHANGED <<dframe, monotonocity, keys, digits, copy, ref, err, result,
                   output, pass, first>>
    /\ UNCHANGED curve_vars

\* lines 152-165: one turn of the while loop
Iterate ==
    /\ pc = "while"
    /\ any(constants)
    /\ iterations' = iterations + 1
    /\ LET col  == keys[idx]
           sign == monotonocity[col]["sign"]
       IN  IF iterations + 1 > budget(Len(Cur[col]))
           THEN /\ Raise("iterations")
                /\ UNCHANGED <<dframe, copy, constants, passes>>
           ELSE LET fixed == clip_accumulate(
                                 nudge(Cur[col], constants, digits, sign),
                                 monotonocity[col])
                IN  /\ Store([Cur EXCEPT ![col] = fixed])
                    /\ constants' = rows_to_be_fixed(fixed, monotonocity[col], digits, sign)
                    /\ passes' = passes + 1
                    /\ UNCHANGED <<pc, err>>
    /\ UNCHANGED <<monotonocity, keys, digits, ref, idx, result, output, pass, first>>
    /\ UNCHANGED curve_vars

\* lines 152, 170-186: the loop is left, the column is checked.
\* float(iterations) / float(len(...)) is 0.0 / 0.0 for an empty column.
Finish ==
    /\ pc = "while"
    /\ ~any(constants)
    /\ LET col  == keys[idx]
           sign == monotonocity[col]["sign"]
       IN  IF Len(Cur[col]) = 0 THEN Raise("zerodivision") /\ idx' = idx
           ELSE IF final_check(Cur[col], digits, sign)
                THEN Raise("final") /\ idx' = idx
           ELSE pc' = "fix" /\ idx' = idx + 1 /\ err' = err
    /\ UNCHANGED <<dframe, monotonocity, keys, digits, copy, ref, constants,
                   iterations, passes, result, output, pass, first>>
    /\ UNCHANGED curve_vars

\* line 187
Return ==
    /\ pc = "fix"
    /\ idx > Len(keys)
    /\ result' = Cur
    /\ pc' = "returned"
    /\ UNCHANGED <<dframe, monotonocity, keys, digits, copy, ref, idx, constants,
                   iterations, passes, err, output, pass, first>>
    /\ UNCHANGED curve_vars

\* lines 63, 75-79: df2str prints the table the fixer returned
Write ==
    /\ pc = "returned"
    /\ output' = to_csv(result, digits)
    /\ pc' = "done"
    /\ UNCHANGED <<dframe, monotonocity, keys, digits, copy, ref, idx, constants,
                   iterations, passes, err, result, pass, first>>
    /\ UNCHANGED curve_vars

Next ==
    \/ Validate
    \/ RoundCopy
    \/ Check
    \/ Prepare
    \/ Iterate
    \/ Finish
    \/ Return
    \/ Write

Spec == Init /\ [][Next]_vars

----------------------------------------------------------------------------
(* The fixer applied to its own result *)

\* modify_dframe_monotonocity(R, monotonocity, digits), R the table that
\* the first call returned
Reapply ==
    /\ pc = "done"
    /\ pass = 1
    /\ pass' = 2
    /\ first' = result
    /\ dframe' = result
    /\ copy' = NoFrame
    /\ ref' = "caller"
    /\ pc' = "call"
    /\ idx' = 1
    /\ constants' = <<>>
    /\ iterations' = 0
    /\ passes' = 0
    /\ result' = NoFrame
    /\ output' = NoFrame
    /\ UNCHANGED <<monotonocity, keys, digits, err>>
    /\ UNCHANGED curve_vars

NextTwice == Next \/ Reapply

SpecTwice == Init /\ [][NextTwice]_vars

----------------------------------------------------------------------------
(* The helpers called on their own *)

\* a series of up to MaxLen values, and a sign with or without limits
InitFunc ==
    /\ dframe \in {[PC |-> s] :
                      s \in UNION {[1..n -> {Lit(k) : k \in {-100 * Milli, 0,
                                       100 * Milli, 300 * Milli, 400 * Milli,
                                       500 * Milli, 1000 * Milli, 1200 * Milli}}] :
                                     n \in 0..MaxLen}}
    /\ monotonocity \in
           {[PC |-> m] :
               m \in { [sign |-> sg] : sg \in {Up, Down} }
                     \cup { [sign |-> sg, lower |-> Float(0)] : sg \in {Up, Down} }
                     \cup { [sign |-> sg, upper |-> Float(1)] : sg \in {Up, Down} }
                     \cup { [sign |-> sg, lower |-> Float(0), upper |-> Float(1)] :
                               sg \in {Up, Down} }}
    /\ keys = <<"PC">>
    /\ digits \in Digits
    /\ copy = NoFrame
    /\ ref = "caller"
    /\ pc = "call"
    /\ idx = 1
    /\ constants = <<>>
    /\ iterations = 0
    /\ passes = 0
    /\ err = ""
    /\ result = NoFrame
    /\ output = NoFrame
    /\ pass = 1
    /\ first = NoFrame
    /\ IdleCurves

CallClipAccumulate ==
    /\ pc = "call"
    /\ result' = [PC |-> clip_accumulate(dframe["PC"], monotonocity["PC"])]
    /\ pc' = "clip_accumulate"
    /\ UNCHANGED <<dframe, monotonocity, keys, digits, copy, ref, idx, constants,
                   iterations, passes, err, output, pass, first>>
    /\ UNCHANGED curve_vars

CallCheckLimits ==
    /\ pc = "call"
    /\ err' = IF check_limits(dframe["PC"], monotonocity["PC"]) THEN "limits" ELSE ""
    /\ pc' = "check_limits"
    /\ UNCHANGED <<dframe, monotonocity, keys, digits, copy, ref, idx, constants,
                   iterations, passes, result, output, pass, first>>
    /\ UNCHANGED curve_vars

CallCheckAlmostMonotone ==
    /\ pc = "call"
    /\ err' = IF check_almost_monotone(dframe["PC"], digits, monotonocity["PC"]["sign"])
              THEN "almost_monotone" ELSE ""
    /\ pc' = "check_almost_monotone"
    /\ UNCHANGED <<dframe, monotonocity, keys, digits, copy, ref, idx, constants,
                   iterations, passes, result, output, pass, first>>
    /\ UNCHANGED curve_vars

NextFunc ==
    \/ CallClipAccumulate
    \/ CallCheckLimits
    \/ CallCheckAlmostMonotone

SpecFunc == InitFunc /\ [][NextFunc]_vars

----------------------------------------------------------------------------
(* Curves.  A curve object (WaterOil, GasOil) is a record of its kind, its *)
(* saturation endpoints, its tag and its table; every number in it is a    *)
(* float.  The numbers a caller writes are decimals with three places,     *)
(* written as integers in units of 1 / Unit and read as floats by D.  The  *)
(* interpolation parameter and the arguments at which a returned function  *)
(* is sampled are kept as the decimals the caller wrote, and enter the     *)
(* arithmetic as their floats.  A function object made by a normalize_     *)
(* function is the record of the interp1d object it holds, of the name of  *)
(* the function that takes its argument to a saturation, and of the curve  *)
(* it closes over.                                                         *)
(* A Python string is the sequence of its pieces, "" is <<>>.              *)

Unit == 1000

\* the float of a decimal of the curves
D(x) == Lit(x * (One \div Unit))

\* a column of floats from its decimals
Col(s) == [i \in 1..Len(s) |-> D(s[i])]

\* float("nan")
NaN == [nan |-> TRUE]

\* the normalized arguments at which the functions are evaluated
NormArgs == {-100, 0, 250, 500, 750, 1000, 1100}

\* np.argsort of distinct values: position k holds the row with k - 1
\* smaller ones
argsort(x) ==
    [k \in 1..Len(x) |->
        CHOOSE i \in 1..Len(x) :
            Cardinality({j \in 1..Len(x) : Lt(x[j], x[i])}) = k - 1]

\* interp1d(x, y, kind=..., bounds_error=False, fill_value=...): the
\* object keeps x sorted, y in the order of x, and the two fill values
interp1d(x, y, fill_value) ==
    the({[x |-> [k \in 1..Len(x) |-> x[ind[k]]],
          y |-> [k \in 1..Len(x) |-> y[ind[k]]],
          fill_value |-> fill_value] : ind \in {the({argsort(x)})}})

\* an interp1d(kind="linear") object called with one new value.  scipy
\* hands a 1-d float table to np.interp, slope * (at - x[j]) + y[j] on the
\* segment x[j] <= at < x[j + 1] and y at the last point, and then
\* overwrites the values outside the table with the fill values.
evaluate(f, at) ==
    IF Lt(at, f.x[1]) THEN f.fill_value[1]
    ELSE IF Gt(at, f.x[Len(f.x)]) THEN f.fill_value[2]
    ELSE IF at = f.x[Len(f.x)] THEN f.y[Len(f.x)]
    ELSE the({FAdd(FMul(FDiv(FSub(f.y[j + 1], f.y[j]), FSub(f.x[j + 1], f.x[j])),
                        FSub(at, f.x[j])),
                   f.y[j]) :
                j \in {k \in 1..(Len(f.x) - 1) : Le(f.x[k], at) /\ Lt(at, f.x[k + 1])}})

\* an interp1d(kind="slinear") object called with one new value: a spline
\* of degree 1 with its knots at x, the fill value outside them, else on
\* the interval xa <= at < xb (the last interval at the largest x)
\* y[lo] * (w * (xb - at)) + y[hi] * (w * (at - xa)) with w = 1.0 / (xb - xa)
slinear(f, at) ==
    IF Lt(at, f.x[1]) THEN f.fill_value[1]
    ELSE IF Gt(at, f.x[Len(f.x)]) THEN f.fill_value[2]
    ELSE the({the({FAdd(FMul(f.y[k], FMul(w, FSub(f.x[k + 1], at))),
                        FMul(f.y[k + 1], FMul(w, FSub(at, f.x[k])))) :
                     w \in {FDiv(Float(1), FSub(f.x[k + 1], f.x[k]))}}) :
                k \in {j \in 1..(Len(f.x) - 1) :
                          Le(f.x[j], at) /\ (Lt(at, f.x[j + 1]) \/ j = Len(f.x) - 1)}})

\* the rows of a boolean mask, in order
RECURSIVE rows(_, _)
rows(mask, i) ==
    IF i > Len(mask) THEN <<>>
    ELSE (IF mask[i] THEN <<i>> ELSE <<>>) \o rows(mask, i + 1)

\* Series.interpolate(method="slinear") of the column y of a frame with
\* index x: the rows before the first number stay NaN, the other NaN rows
\* are given what interp1d(kind="slinear", bounds_error=False) over the
\* rows with a number has at their index.  A column of numbers only, or of
\* none, is left as it is.  scipy's make_interp_spline raises
\* ValueError("Expect x to not have duplicates") when two rows with a
\* number have the same index (releases before that test build the
\* spline).  The columns of the inputs have no number or at least two.
interpolate(x, y) ==
    the({IF valid = <<>> \/ Len(valid) = Len(y) THEN [raises |-> FALSE, value |-> y]
         ELSE IF \E i, j \in 1..Len(valid) : i # j /\ x[valid[i]] = x[valid[j]]
         THEN [raises |-> TRUE]
         ELSE the({[raises |-> FALSE,
                    value  |-> [i \in 1..Len(y) |->
                                   IF y[i] # NaN THEN y[i]
                                   ELSE IF i < valid[1] THEN NaN
                                   ELSE slinear(f, x[i])]] :
                      f \in {interp1d([k \in 1..Len(valid) |-> x[valid[k]]],
                                      [k \in 1..Len(valid) |-> y[valid[k]]],
                                      <<NaN, NaN>>)}}) :
            valid \in {rows([i \in 1..Len(y) |-> y[i] # NaN], 1)}})

\* lines 886-887 and 923, fillna(method="bfill") / fillna(method="ffill"): a
\* NaN row takes the next number below it, resp. the last number above it
fillna(y, method) ==
    [i \in 1..Len(y) |->
        IF y[i] # NaN THEN y[i]
        ELSE the({IF from = {} THEN NaN
                  ELSE y[CHOOSE j \in from : \A k \in from :
                             IF method = "bfill" THEN j <= k ELSE j >= k] :
                     from \in {{j \in 1..Len(y) :
                                   /\ y[j] # NaN
                                   /\ IF method = "bfill" THEN j > i ELSE j < i}}})]

\* lines 488-489
sw_fn(c, swn) == FAdd(c.swcr, FMul(swn, FSub(FSub(Float(1), c.swcr), c.sorw)))

\* lines 502-503
so_fn(c, son) == FAdd(c.sorw, FMul(son, FSub(FSub(Float(1), c.sorw), c.swl)))

\* lines 549-550
sg_fn(c, sgn) ==
    FAdd(c.sgcr, FMul(sgn, FSub(FSub(FSub(Float(1), c.swl), c.sgcr), c.sorg)))

\* lines 563-564: so_fn of normalize_nonlinpart_go
so_fn_go(c, son) ==
    FAdd(FAdd(c.swl, c.sorg), FMul(son, FSub(FSub(Float(1), c.swl), c.sorg)))

\* lines 589-594: "" when normalize_pc raises its ValueError
sat_col(c) ==
    IF c.kind = "WaterOil" THEN "sw"
    ELSE IF c.kind = "GasOil" THEN "sg"
    ELSE ""

\* lines 603-604, 614-616: min_sx and max_sx are read when the function
\* is made, the minimum once more when it is called
sx_fn(c, sxn) ==
    FAdd(smin(c.table[sat_col(c)]),
         FMul(sxn, FSub(smax(c.table[sat_col(c)]), smin(c.table[sat_col(c)]))))

\* lines 476-508: (krw_fn, kro_fn), with krw_interp over sw and kro_interp
\* over 1 - sw
normalize_nonlinpart_wo(c) ==
    [krw_fn |-> [interp |-> interp1d(c.table.sw, c.table.krw,
                                     <<Zero, smax(c.table.krw)>>),
                 sx     |-> "sw_fn",
                 curve  |-> c],
     kro_fn |-> [interp |-> interp1d([i \in 1..Len(c.table.sw) |->
                                         FSub(Float(1), c.table.sw[i])],
                                     c.table.krow,
                                     <<Zero, smax(c.table.krow)>>),
                 sx     |-> "so_fn",
                 curve  |-> c]]

\* lines 537-569: (krg_fn, kro_fn)
normalize_nonlinpart_go(c) ==
    [krg_fn |-> [interp |-> interp1d(c.table.sg, c.table.krg,
                                     <<Zero, smax(c.table.krg)>>),
                 sx     |-> "sg_fn",
                 curve  |-> c],
     kro_fn |-> [interp |-> interp1d([i \in 1..Len(c.table.sg) |->
                                         FSub(Float(1), c.table.sg[i])],
                                     c.table.krog,
                                     <<Zero, smax(c.table.krog)>>),
                 sx     |-> "so_fn_go",
                 curve  |-> c]]

\* lines 596-620: pc_fn with pc_interp, fill_value=(max_pc, min_pc), or
\* lambda sxn: 0
normalize_pc(c) ==
    IF ~Has(c.table, "pc") THEN [sx |-> "lambda"]
    ELSE [interp |-> interp1d(c.table[sat_col(c)], c.table.pc,
                              <<smax(c.table.pc), smin(c.table.pc)>>),
          sx     |-> "sx_fn",
          curve  |-> c]

\* f(sxn) for a function object f: lines 491-492, 505-506, 552-553,
\* 566-567, 617-618, the interp1d object at the saturation made of the
\* argument, and 0 for the lambda
Call(f, sxn) ==
    IF f.sx = "lambda" THEN Zero
    ELSE the({evaluate(f.interp, at) :
                at \in {IF f.sx = "sw_fn" THEN sw_fn(f.curve, sxn)
                        ELSE IF f.sx = "so_fn" THEN so_fn(f.curve, sxn)
                        ELSE IF f.sx = "sg_fn" THEN sg_fn(f.curve, sxn)
                        ELSE IF f.sx = "so_fn_go" THEN so_fn_go(f.curve, sxn)
                        ELSE sx_fn(f.curve, sxn)}})

\* b * (1 - parameter) + a * parameter
weighted_value_swapped(a, b, t) ==
    FAdd(FMul(b, FSub(Float(1), t)), FMul(a, t))

\* lines 692-693, 795-796: a * (1.0 - parameter) + b * parameter
weighted_value(a, b, t) ==
    FAdd(FMul(a, FSub(Float(1), t)), FMul(b, t))

None == [none |-> TRUE]

\* a str argument
Str(s) == [str |-> s]

\* "{}".format(parameter) for a float parameter below 10.0: the shortest
\* decimal that reads back as the float, with at least one decimal
format(t) ==
    LET Digit(d) == <<"0", "1", "2", "3", "4", "5", "6", "7", "8", "9">>[d + 1]
        f  == Abs(t) % Unit
        d1 == f \div 100
        d2 == (f \div 10) % 10
        d3 == f % 10
    IN  (IF t < 0 THEN <<"-">> ELSE <<>>)
            \o <<Digit(Abs(t) \div Unit), ".", Digit(d1)>>
            \o (IF d2 # 0 \/ d3 # 0 THEN <<Digit(d2)>> ELSE <<>>)
            \o (IF d3 # 0 THEN <<Digit(d3)>> ELSE <<>>)

\* the tag is tested for truth, not for None: an empty tag is replaced
_interpolate_tags_truthy(lo, hi, t, given) ==
    IF Has(given, "none") \/ given = Str(<<>>)
    THEN IF lo.tag = hi.tag
         THEN IF lo.tag # <<>>
              THEN <<"Interpolated to ">> \o format(t) \o <<" in ">> \o lo.tag
              ELSE <<"Interpolated to ">> \o format(t)
         ELSE <<"Interpolated to ">> \o format(t) \o <<" between ">> \o lo.tag
                  \o <<" and ">> \o hi.tag
    ELSE given.str

\* lines 640-649
_interpolate_tags(lo, hi, t, given) ==
    IF Has(given, "none")
    THEN IF lo.tag = hi.tag
         THEN IF lo.tag # <<>>
              THEN <<"Interpolated to ">> \o format(t) \o <<" in ">> \o lo.tag
              ELSE <<"Interpolated to ">> \o format(t)
         ELSE <<"Interpolated to ">> \o format(t) \o <<" between ">> \o lo.tag
                  \o <<" and ">> \o hi.tag
    ELSE given.str

----------------------------------------------------------------------------
(* interpolate_wo, interpolate_go and interpolator, step by step *)

W1 ==
    [kind |-> "WaterOil", swl |-> D(100), swcr |-> D(100), sorw |-> D(200), tag |-> <<"A">>,
     table |-> [sw   |-> Col(<<100, 450, 800, 1000>>),
                krw  |-> Col(<<0, 200, 600, 1000>>),
                krow |-> Col(<<1000, 300, 0, 0>>),
                pc   |-> Col(<<500, 200, 100, 0>>)]]

W2 ==
    [kind |-> "WaterOil", swl |-> D(100), swcr |-> D(200), sorw |-> D(100), tag |-> <<"B">>,
     table |-> [sw   |-> Col(<<100, 200, 550, 900, 1000>>),
                krw  |-> Col(<<0, 0, 300, 800, 1000>>),
                krow |-> Col(<<900, 800, 200, 0, 0>>)]]

W3 ==
    [kind |-> "WaterOil", swl |-> D(50), swcr |-> D(100), sorw |-> D(200), tag |-> <<>>,
     table |-> [sw   |-> Col(<<50, 100, 450, 800, 1000>>),
                krw  |-> Col(<<0, 0, 150, 500, 900>>),
                krow |-> Col(<<1000, 950, 350, 0, 0>>),
                pc   |-> Col(<<900, 700, 300, 100, 0>>)]]

G1 ==
    [kind |-> "GasOil", swl |-> D(100), sgcr |-> D(50), sorg |-> D(100), tag |-> <<"A">>,
     table |-> [sg   |-> Col(<<0, 50, 425, 800, 900>>),
                krg  |-> Col(<<0, 0, 300, 800, 900>>),
                krog |-> Col(<<1000, 900, 250, 0, 0>>),
                pc   |-> Col(<<0, 100, 200, 300, 400>>)]]

G2 ==
    [kind |-> "GasOil", swl |-> D(100), sgcr |-> D(0), sorg |-> D(200), tag |-> <<>>,
     table |-> [sg   |-> Col(<<0, 350, 700, 900>>),
                krg  |-> Col(<<0, 200, 700, 1000>>),
                krog |-> Col(<<1000, 400, 0, 0>>)]]

\* an object that is not a curve
Other == [kind |-> "DataFrame"]

Curves == {W1, W2, W3, G1, G2, Other}

Parameters == {-100, 0, 200, 500, 1000, 1100}

TagArgs == {None, Str(<<>>), Str(<<"T">>)}

\* the saturation columns of the table that the constructor of the new
\* curve makes: the saturation, its two normalized forms
NewTables ==
    { [sat  |-> Col(<<100, 550, 1000>>),
       satn |-> Col(<<0, 500, 1000>>),
       son  |-> Col(<<1000, 500, 0>>)],
      [sat  |-> Col(<<0, 250, 1000>>),
       satn |-> Col(<<-100, 250, 1100>>),
       son  |-> Col(<<1100, 750, -100>>)] }

\* A call of interpolate_wo or interpolate_go, or a call of interpolator
\* with sat="sw", kr1="krw", kr2="krow", pc="pc": two water-oil curves, of
\* which one may carry its normalized saturation swn as well, and a
\* tableobject whose table has the saturations only, in one of them with
\* cells of swn and son that are not numbers.
InitInterp ==
    /\ dframe = NoFrame
    /\ monotonocity = <<>>
    /\ keys = <<>>
    /\ digits = 0
    /\ copy = NoFrame
    /\ ref = "caller"
    /\ idx = 1
    /\ constants = <<>>
    /\ iterations = 0
    /\ passes = 0
    /\ output = NoFrame
    /\ pass = 1
    /\ first = NoFrame
    /\ \/ /\ fn \in {"interpolate_wo", "interpolate_go"}
          /\ low \in Curves
          /\ high \in Curves
          /\ parameter \in Parameters
          /\ tag \in TagArgs
          /\ curve = NoCurve
       \/ /\ fn = "interpolator"
          /\ LET \* the curve with the column swn, (sw - swcr) / (1 - swcr - sorw)
                 WithSwn(c) ==
                     [c EXCEPT !.table =
                         [col \in DOMAIN @ \cup {"swn"} |->
                             IF col = "swn"
                             THEN [i \in 1..Len(@.sw) |->
                                      FDiv(FSub(@.sw[i], c.swcr),
                                           FSub(FSub(Float(1), c.swcr), c.sorw))]
                             ELSE @[col]]]
             IN  /\ low \in {W1, WithSwn(W1)}
                 /\ high \in {W3, WithSwn(W2)}
          /\ parameter \in {0, 200, 1100}
          /\ tag = None
          /\ curve \in {[kind |-> "WaterOil", tag |-> <<>>,
                          table |-> [sw |-> grid.sat, swn |-> grid.satn,
                                     son |-> grid.son]] : grid \in NewTables}
                   \cup {[kind |-> "WaterOil", tag |-> <<>>,
                           table |-> [sw  |-> Col(<<100, 550, 1000>>),
                                      swn |-> <<NaN, Float(1), NaN>>,
                                      son |-> <<Float(1), NaN, Float(0)>>]]}
    /\ normalizers = <<>>
    /\ new = NoCurve
    /\ args = <<>>
    /\ intdf = NoFrame
    /\ pc = "call"
    /\ err = ""
    /\ result = NoCurve

\* isinstance(c, pyscal.WaterOil) resp. isinstance(c, pyscal.GasOil)
isinstance(c, f) ==
    c.kind = IF f = "interpolate_wo" THEN "WaterOil" ELSE "GasOil"

\* only the lower end is asserted
assert_parameter_lower_only(t) == 0 <= t

\* lines 681, 784: assert 0 <= parameter <= 1
assert_parameter(t) == 0 <= t /\ t <= Unit

\* lines 678-681, 781-784
AssertArgs ==
    /\ pc = "call"
    /\ fn \in {"interpolate_wo", "interpolate_go"}
    /\ IF isinstance(low, fn) /\ isinstance(high, fn) /\ assert_parameter(parameter)
       THEN pc' = "normalize" /\ err' = err
       ELSE Raise("AssertionError")
    /\ UNCHANGED <<result, fn, low, high, parameter, tag, normalizers, new,
                   curve, args, intdf>>
    /\ UNCHANGED fixer_vars

\* lines 685-688, 788-791
Normalize ==
    /\ pc = "normalize"
    /\ normalizers' =
           IF fn = "interpolate_wo"
           THEN [krw1 |-> normalize_nonlinpart_wo(low).krw_fn,
                 kro1 |-> normalize_nonlinpart_wo(low).kro_fn,
                 krw2 |-> normalize_nonlinpart_wo(high).krw_fn,
                 kro2 |-> normalize_nonlinpart_wo(high).kro_fn,
                 pc1  |-> normalize_pc(low),
                 pc2  |-> normalize_pc(high)]
           ELSE [krg1 |-> normalize_nonlinpart_go(low).krg_fn,
                 kro1 |-> normalize_nonlinpart_go(low).kro_fn,
                 krg2 |-> normalize_nonlinpart_go(high).krg_fn,
                 kro2 |-> normalize_nonlinpart_go(high).kro_fn,
                 pc1  |-> normalize_pc(low),
                 pc2  |-> normalize_pc(high)]
    /\ pc' = "blend"
    /\ UNCHANGED <<err, result, fn, low, high, parameter, tag, new, curve, args,
                   intdf>>
    /\ UNCHANGED fixer_vars

\* weighted_value over the rows of two columns of floats
blend_columns(f1, f2, at, t) ==
    [i \in 1..Len(at) |-> weighted_value(Call(f1, at[i]), Call(f2, at[i]), t)]

\* lines 722-724, 824-826: (sat - sat.min()) / (sat.max() - sat.min())
pc_intp(sat) ==
    [i \in 1..Len(sat) |->
        FDiv(FSub(sat[i], smin(sat)), FSub(smax(sat), smin(sat)))]

\* lines 692-727.  pyscal.WaterOil(swl=, swcr=, sorw=, h=) makes the object
\* with these endpoints, an empty tag and a table of saturations; the
\* set_endpoints_linearpart_* methods are recorded by their arguments.
BlendWo ==
    /\ pc = "blend"
    /\ fn = "interpolate_wo"
    /\ \E grid \in NewTables :
          LET t  == D(parameter)
              nz == normalizers
          IN  new' =
                [kind   |-> "WaterOil",
                 swl    |-> weighted_value(low.swl, high.swl, t),
                 swcr   |-> weighted_value(low.swcr, high.swcr, t),
                 sorw   |-> weighted_value(low.sorw, high.sorw, t),
                 krwmax |-> weighted_value(smax(low.table.krw),
                                           smax(high.table.krw), t),
                 krwend |-> weighted_value(Call(nz.krw1, Float(1)),
                                           Call(nz.krw2, Float(1)), t),
                 kroend |-> weighted_value(Call(nz.kro1, Float(1)),
                                           Call(nz.kro2, Float(1)), t),
                 tag    |-> <<>>,
                 table  |-> [sw   |-> grid.sat,
                             swn  |-> grid.satn,
                             son  |-> grid.son,
                             krw  |-> blend_columns(nz.krw1, nz.krw2, grid.satn, t),
                             krow |-> blend_columns(nz.kro1, nz.kro2, grid.son, t),
                             swn_pc_intp |-> pc_intp(grid.sat),
                             pc   |-> blend_columns(nz.pc1, nz.pc2,
                                                    pc_intp(grid.sat), t)]]
    /\ pc' = "tag"
    /\ UNCHANGED <<err, result, fn, low, high, parameter, tag, normalizers,
                   curve, args, intdf>>
    /\ UNCHANGED fixer_vars

\* lines 795-834.  The pc column written at line 819 is overwritten at
\* line 827.
BlendGo ==
    /\ pc = "blend"
    /\ fn = "interpolate_go"
    /\ \E grid \in NewTables :
          LET t  == D(parameter)
              nz == normalizers
          IN  new' =
                [kind   |-> "GasOil",
                 swl    |-> weighted_value(low.swl, high.swl, t),
                 sgcr   |-> weighted_value(low.sgcr, high.sgcr, t),
                 sorg   |-> weighted_value(low.sorg, high.sorg, t),
                 krgmax |-> weighted_value(smax(low.table.krg),
                                           smax(high.table.krg), t),
                 krgend |-> weighted_value(Call(nz.krg1, Float(1)),
                                           Call(nz.krg2, Float(1)), t),
                 kroend |-> weighted_value(Call(nz.kro1, Float(1)),
                                           Call(nz.kro2, Float(1)), t),
                 tag    |-> <<>>,
                 table  |-> [sg   |-> grid.sat,
                             sgn  |-> grid.satn,
                             son  |-> grid.son,
                             krg  |-> blend_columns(nz.krg1, nz.krg2, grid.satn, t),
                             krog |-> blend_columns(nz.kro1, nz.kro2, grid.son, t),
                             sgn_pc_intp |-> pc_intp(grid.sat),
                             pc   |-> blend_columns(nz.pc1, nz.pc2,
                                                    pc_intp(grid.sat), t)]]
    /\ pc' = "tag"
    /\ UNCHANGED <<err, result, fn, low, high, parameter, tag, normalizers,
                   curve, args, intdf>>
    /\ UNCHANGED fixer_vars

\* lines 729-731, 836-838
ReturnCurve ==
    /\ pc = "tag"
    /\ new' = [new EXCEPT !.tag = _interpolate_tags(low, high, parameter, tag)]
    /\ result' = new'
    /\ pc' = "returned"
    /\ UNCHANGED <<err, fn, low, high, parameter, tag, normalizers, curve, args,
                   intdf>>
    /\ UNCHANGED fixer_vars

\* lines 869-874: DataFrame.rename(columns={kr1: kr1 + suffix}, inplace=
\* True), and so for kr2 and pc; a column the table lacks is passed over
rename(table, suffix) ==
    LET name(c) == IF c \in {"krw", "krow", "pc"} THEN c \o suffix ELSE c
    IN  [c \in {name(k) : k \in DOMAIN table} |->
            table[CHOOSE k \in DOMAIN table : name(k) = c]]

\* line 882: pd.concat of three frames, a column that a frame lacks
\* is NaN in its rows
concat(a, b, c) ==
    LET height(f) == Len(f[CHOOSE k \in DOMAIN f : TRUE])
        pad(f, col) == IF Has(f, col) THEN f[col] ELSE [i \in 1..height(f) |-> NaN]
    IN  the({[col \in DOMAIN a \cup DOMAIN b \cup DOMAIN c |->
                 pad(a, col) \o pad(b, col) \o pad(c, col)]})

\* lines 883-884, .set_index(sat).sort_index(): the frames it can leave.  The index
\* rises; the sort (numpy's quicksort) is not a stable one, rows of equal
\* index come in any order.
sort_index(frame, sat) ==
    LET RECURSIVE orders(_, _)
        \* smaller[i]: the number of rows with an index below that of row i
        orders(smaller, left) ==
            IF left = {} THEN {<<>>}
            ELSE UNION {{<<i>> \o s : s \in orders(smaller, left \ {i})} :
                           i \in {k \in left : \A j \in left : smaller[k] <= smaller[j]}}
    IN  {the({[col \in DOMAIN frame |->
                  [k \in 1..Len(order) |-> frame[col][order[k]]]]}) :
            order \in UNION {orders(smaller, 1..Len(frame[sat])) :
                               smaller \in {the({[i \in 1..Len(frame[sat]) |->
                                   Cardinality({j \in 1..Len(frame[sat]) :
                                                   Lt(frame[sat][j], frame[sat][i])})]})}}}

\* lines 869-885: the kr and pc columns of the two curves are renamed in
\* their own tables, the tables and the saturations of tableobject are
\* merged, sorted by saturation, and every column is interpolated
InterpolatorMerge ==
    /\ pc = "call"
    /\ fn = "interpolator"
    /\ low' = [low EXCEPT !.table = rename(@, "_1")]
    /\ high' = [high EXCEPT !.table = rename(@, "_2")]
    /\ \E frame \in {concat(low'.table, high'.table, [sw |-> curve.table.sw])} :
       \E sorted \in sort_index(frame, "sw") :
       \E filled \in {[col \in DOMAIN sorted \ {"sw"} |->
                           interpolate(sorted.sw, sorted[col])]} :
          IF \E col \in DOMAIN filled : filled[col].raises
          THEN Raise("ValueError") /\ intdf' = intdf
          ELSE /\ intdf' = [col \in DOMAIN sorted |->
                               IF col = "sw" THEN sorted.sw ELSE filled[col].value]
               /\ pc' = "merged"
               /\ err' = err
    /\ UNCHANGED <<result, fn, parameter, tag, normalizers, new, curve, args>>
    /\ UNCHANGED fixer_vars

SWINTEGERS == 10000

\* lines 906-909: int(round(x * SWINTEGERS))
swint(x) ==
    the({r.sign * BInt(BShl(r.m, r.e)) : r \in {rint(FMul(x, Float(SWINTEGERS)))}})

\* lines 886-923: the columns are filled to every row, backwards and then
\* forwards, the columns swn, son, swnpc, H and J are deleted, the columns
\* of the two curves are weighed, the rows of the saturations of
\* tableobject are looked up by swint, the first row of a swint, and their
\* swint, kr1, kr2 and pc are written into the table of tableobject, of
\* which every column is then filled forwards (swint holds integers, and
\* none of them is missing).  Nothing is returned.
InterpolatorSlice ==
    /\ pc = "merged"
    /\ LET t    == D(parameter)
           n    == Len(intdf.sw)
           mix(a, b) == [i \in 1..n |-> weighted_value(a[i], b[i], t)]
           sat  == curve.table.sw
           at   == [k \in 1..Len(sat) |->
                       CHOOSE i \in 1..n :
                           /\ swint(intdf.sw[i]) = swint(sat[k])
                           /\ \A j \in 1..(i - 1) : swint(intdf.sw[j]) # swint(sat[k])]
           full == [col \in DOMAIN intdf \ {"swn", "son", "swnpc", "H", "J"} |->
                       fillna(fillna(intdf[col], "bfill"), "ffill")]
           cols == [krw  |-> mix(full.krw_1, full.krw_2),
                    krow |-> mix(full.krow_1, full.krow_2),
                    pc   |-> IF Has(low.table, "pc_1") /\ Has(high.table, "pc_2")
                             THEN mix(full.pc_1, full.pc_2)
                             ELSE [i \in 1..n |-> Zero]]
       IN  curve' =
             [curve EXCEPT !.table =
                 [col \in DOMAIN @ \cup {"swint", "krw", "krow", "pc"} |->
                     IF col = "swint" THEN [k \in 1..Len(sat) |-> swint(sat[k])]
                     ELSE fillna(IF Has(cols, col)
                                 THEN [k \in 1..Len(sat) |-> cols[col][at[k]]]
                                 ELSE @[col],
                                 "ffill")]]
    /\ result' = None
    /\ pc' = "interpolator"
    /\ UNCHANGED <<err, fn, low, high, parameter, tag, normalizers, new, args,
                   intdf>>
    /\ UNCHANGED fixer_vars

NextInterp ==
    \/ AssertArgs
    \/ Normalize
    \/ BlendWo
    \/ BlendGo
    \/ ReturnCurve
    \/ InterpolatorMerge
    \/ InterpolatorSlice

SpecInterp == InitInterp /\ [][NextInterp]_vars

----------------------------------------------------------------------------
(* normalize_pc, crosspoint and estimate_diffjumppoint called on their own *)

\* tables of three and of five rows: krw is a non-decreasing column that
\* starts at zero, krow is krw or the saturation itself, from the last row
\* to the first
Tables ==
    LET KrColumns(n) ==
            {s \in [1..n -> {0, 250, 500, 1000}] :
                s[1] = 0 /\ \A i \in 1..(n - 1) : s[i] <= s[i + 1]}
    IN  UNION {UNION {{[sw   |-> Col(x),
                        krw  |-> Col(w),
                        krow |-> Col([i \in 1..Len(o) |-> o[Len(o) + 1 - i]])] :
                          o \in {w, x}} :
                         w \in KrColumns(Len(x))} :
                  x \in {<<0, 500, 1000>>, <<0, 250, 500, 750, 1000>>}}

\* A call of normalize_pc(curve), of crosspoint(dframe, satcol, kr1col,
\* kr2col) or of estimate_diffjumppoint(dframe, xcol, ycol, side).  The
\* tables given to crosspoint include two with a kr cell that is not a
\* number.
InitCalls ==
    /\ monotonocity = <<>>
    /\ keys = <<>>
    /\ digits = 0
    /\ copy = NoFrame
    /\ ref = "caller"
    /\ idx = 1
    /\ constants = <<>>
    /\ iterations = 0
    /\ passes = 0
    /\ output = NoFrame
    /\ pass = 1
    /\ first = NoFrame
    /\ fn \in {"normalize_pc", "crosspoint", "estimate_diffjumppoint"}
    /\ dframe \in IF fn = "crosspoint"
                   THEN Tables \cup { [sw   |-> Col(<<0, 500, 1000>>),
                                       krw  |-> <<D(0), NaN, D(1000)>>,
                                       krow |-> Col(<<1000, 500, 0>>)],
                                      [sw   |-> Col(<<0, 500, 1000>>),
                                       krw  |-> Col(<<0, 500, 1000>>),
                                       krow |-> <<D(1000), D(500), NaN>>] }
                   ELSE Tables
    \* W1 has a pc column that falls with the saturation, G1 one that
    \* rises, W2 and G2 have none
    /\ curve \in {W1, W2, G1, G2, Other}
    /\ args \in {[xcol |-> x, ycol |-> y, side |-> sd, satcol |-> "sw",
                   kr1col |-> "krw", kr2col |-> "krow"] :
                     x \in {"None", "sw"}, y \in {"None", "krow"},
                     sd \in {"left", "right"}}
    /\ low = NoCurve
    /\ high = NoCurve
    /\ parameter = 0
    /\ tag = ""
    /\ normalizers = <<>>
    /\ new = NoCurve
    /\ intdf = NoFrame
    /\ pc = "call"
    /\ err = ""
    /\ result = NoCurve

\* lines 366-381: the saturation where kr1col - kr2col is zero.  The three
\* columns are copied at line 366, krdiff is written into the copy, and a
\* row with krdiff 0.0 and no other number is appended.  A krdiff that is
\* not a number ends the call with -1 (lines 374-377).  The frame, indexed
\* by krdiff in the order of its rows, is interpolated, and the saturation
\* of the first row that np.isclose finds at 0.0 (within 1e-08) is
\* returned.
crosspoint(frame, satcol, kr1col, kr2col) ==
    LET n      == Len(frame[satcol])
        krdiff == [i \in 1..n |->
                      IF frame[kr1col][i] = NaN \/ frame[kr2col][i] = NaN THEN NaN
                      ELSE FSub(frame[kr1col][i], frame[kr2col][i])]
        index  == Append(krdiff, Zero)
        column(col) == interpolate(index, Append(frame[col], NaN))
    IN  IF \E i \in 1..n : krdiff[i] = NaN
        THEN [raises |-> FALSE, value |-> Neg(Float(1))]
        ELSE IF \E col \in {satcol, kr1col, kr2col} : column(col).raises
        THEN [raises |-> TRUE]
        ELSE [raises |-> FALSE,
              value  |-> column(satcol).value[
                             CHOOSE i \in 1..(n + 1) :
                                 /\ Le(FAbs(index[i]), Lit(1))
                                 /\ \A j \in 1..(i - 1) : Gt(FAbs(index[j]), Lit(1))]]

\* lines 417-437: the columns written into the table.  The assert of
\* line 430 holds for them: (x - x) * lin_a + y is y for a finite lin_a,
\* and the saturations of a table differ from row to row.
diffjump_columns(table, xcol, ycol, side) ==
    LET x   == table[xcol]
        y   == table[ycol]
        n   == Len(x)
        iloc == IF side = "left" THEN 1 ELSE n
        \* row 0 is given the derivative of row 1
        deriv == [i \in 1..n |->
                     LET k == IF i = 1 THEN 2 ELSE i
                     IN  FDiv(FSub(y[k], y[k - 1]), FSub(x[k], x[k - 1]))]
        lin_a == deriv[iloc]
        linear == [i \in 1..n |-> FAdd(FMul(FSub(x[i], x[iloc]), lin_a), y[iloc])]
        lindev == [i \in 1..n |-> FAbs(FSub(y[i], linear[i]))]
        \* Series.cumsum()
        cumsum[i \in 1..n] == IF i = 1 THEN lindev[1] ELSE FAdd(cumsum[i - 1], lindev[i])
    IN  [_deriv |-> deriv, _linear |-> linear, _lindev |-> lindev,
         _lindevcumsum |-> [i \in 1..n |-> cumsum[i]]]

\* lines 439-447: the value returned, or the IndexError of a missing row
diffjump_value(x, lindevcumsum, side) ==
    LET n == Len(x)
        maxcumsum == smax(lindevcumsum)
        right == rows([i \in 1..n |->
                          Lt(FAbs(FSub(lindevcumsum[i], maxcumsum)), epsilon)], 1)
        left  == rows([i \in 1..n |-> Lt(lindevcumsum[i], epsilon)], 1)
        \* shift(1) makes the first row NaN, which compares False
        shifted == rows([i \in 1..n |-> i > 1 /\ Lt(lindevcumsum[i - 1], epsilon)], 1)
        part  == IF Len(left) = 1 THEN shifted ELSE left
    IN  IF side = "right"
        THEN IF Len(right) < 2 THEN [raises |-> TRUE]
             ELSE [raises |-> FALSE, value |-> x[right[2]]]
        ELSE IF part = <<>> THEN [raises |-> TRUE]
             ELSE [raises |-> FALSE, value |-> x[part[Len(part)]]]

\* normalize_pc(curve): the function it returns, by its values at NormArgs
CallNormalizePc ==
    /\ pc = "call"
    /\ fn = "normalize_pc"
    /\ IF sat_col(curve) = ""
       THEN Raise("ValueError") /\ result' = result
       ELSE /\ result' = [sxn \in NormArgs |-> Call(normalize_pc(curve), D(sxn))]
            /\ pc' = "normalize_pc"
            /\ err' = err
    /\ UNCHANGED curve_vars
    /\ UNCHANGED fixer_vars

\* crosspoint(dframe, satcol, kr1col, kr2col)
CallCrosspoint ==
    /\ pc = "call"
    /\ fn = "crosspoint"
    /\ LET v == crosspoint(dframe, args.satcol, args.kr1col, args.kr2col)
       IN  IF v.raises
           THEN Raise("ValueError") /\ result' = result
           ELSE result' = v.value /\ pc' = "crosspoint" /\ err' = err
    /\ UNCHANGED curve_vars
    /\ UNCHANGED fixer_vars

\* estimate_diffjumppoint(table, xcol, ycol, side), table the caller's
\* dframe: lines 418-437 assign the columns in the argument itself
CallEstimateDiffjumppoint ==
    /\ pc = "call"
    /\ fn = "estimate_diffjumppoint"
    /\ LET \* lines 406-409: xcol=None is table.columns[0], ycol=None is
           \* table.columns[1]
           xcol == IF args.xcol = "None" THEN "sw" ELSE args.xcol
           ycol == IF args.ycol = "None" THEN "krw" ELSE args.ycol
           cols == diffjump_columns(dframe, xcol, ycol, args.side)
           v    == diffjump_value(dframe[xcol], cols._lindevcumsum, args.side)
       IN  /\ dframe' = [c \in DOMAIN dframe \cup DOMAIN cols |->
                             IF Has(cols, c) THEN cols[c] ELSE dframe[c]]
           /\ IF v.raises
              THEN Raise("IndexError") /\ result' = result
              ELSE result' = v.value /\ pc' = "estimate_diffjumppoint" /\ err' = err
    /\ UNCHANGED <<monotonocity, keys, digits, copy, ref, idx, constants,
                   iterations, passes, output, pass, first>>
    /\ UNCHANGED curve_vars

NextCalls ==
    \/ CallNormalizePc
    \/ CallCrosspoint
    \/ CallEstimateDiffjumppoint

SpecCalls == InitCalls /\ [][NextCalls]_vars

----------------------------------------------------------------------------
(* Claims *)

RowCount == Len(dframe["PC"])

\* the column was left alone as an all-zero column (lines 144-148 act on
\* the rounded input)
Skipped(col) ==
    allowzero_skip(sround(dframe[col], digits + 1), monotonocity[col], digits)

\* rows i and i + 1 of the column both print as a declared limit
PrintedAtLimit(col, i) ==
    LET m == monotonocity[col]
    IN  \/ /\ Has(m, "upper")
           /\ output[col][i] = Format(m["upper"], digits)
           /\ output[col][i + 1] = Format(m["upper"], digits)
        \/ /\ Has(m, "lower")
           /\ output[col][i] = Format(m["lower"], digits)
           /\ output[col][i + 1] = Format(m["lower"], digits)

\* C1: when df2str returns, a column with sign +1 or -1 is, as printed with
\* `digits` decimals, strictly monotone in the direction of sign, except
\* where both rows are at a declared limit or the column was skipped as an
\* all-zero column under allowzero.
C1_PrintedStrictlyMonotone ==
    pc = "done" =>
        \A col \in DOMAIN monotonocity :
            (monotonocity[col]["sign"] \in {Up, Down} /\ ~Skipped(col)) =>
                \A i \in 1..(Len(output[col]) - 1) :
                    \/ /\ monotonocity[col]["sign"] = Up
                       /\ output[col][i + 1] > output[col][i]
                    \/ /\ monotonocity[col]["sign"] = Down
                       /\ output[col][i + 1] < output[col][i]
                    \/ PrintedAtLimit(col, i)

\* C2: no step of df2str / modify_dframe_monotonocity changes a cell of the
\* caller's table, whether the call returns or raises.
C2_CallerTableUnchanged == [][dframe' = dframe]_vars

\* a column was fixed in the copy, then the final check of the next column
\* raised
C2_Witness ==
    /\ pc = "raised"
    /\ err = "final"
    /\ idx = 2
    /\ copy["KRW"] # sround(dframe["KRW"], digits + 1)

\* C3: the nudge-and-clip body runs at most 2 x row_count times for a
\* column; when rows still need fixing after that, the next turn of the
\* loop raises the too-many-iterations error.
C3_LoopBounded ==
    /\ passes <= 2 * RowCount
    /\ (pc = "while" /\ any(constants) /\ passes = 2 * RowCount)
           => iterations = 2 * RowCount
    /\ err = "iterations"
           => pc = "raised" /\ passes = 2 * RowCount /\ iterations = 2 * RowCount + 1

C3_Witness ==
    /\ err = "iterations"
    /\ RowCount >= 2
    /\ passes = 2 * RowCount

\* C4: when the fixer returns, every column of the monotonocity argument
\* with sign +1 (-1), rounded to `digits` decimals, has all consecutive
\* differences >= -10^-digits (<= +10^-digits), the float 1.0 / 10.0 **
\* digits.
C4_RoundedDifferences ==
    pc \in {"returned", "done"} =>
        \A col \in DOMAIN monotonocity :
            LET d == diff(sround(result[col], digits))
            IN  /\ monotonocity[col]["sign"] = Up
                       => \A i \in 1..Len(d) : Ge(d[i], Neg(allowance(digits)))
                /\ monotonocity[col]["sign"] = Down
                       => \A i \in 1..Len(d) : Le(d[i], allowance(digits))

\* every limit is a multiple of 10^-(digits + 1): rounding to digits + 1
\* decimals leaves it as it is
LimitsOnGrid ==
    \A col \in DOMAIN monotonocity :
        \A limit \in {"lower", "upper"} :
            Has(monotonocity[col], limit) =>
                sround(<<monotonocity[col][limit]>>, digits + 1)
                    = <<monotonocity[col][limit]>>

\* a lower limit is declared only by columns with a positive sign
LowerOnlyRising ==
    \A col \in DOMAIN monotonocity :
        Has(monotonocity[col], "lower") => Gt(monotonocity[col]["sign"], Zero)

C5_AnyLimit ==
    pass = 2 =>
        /\ pc # "raised"
        /\ (pc \in {"returned", "done"} /\ LowerOnlyRising)
               => result = dfround(first, digits + 1)

\* the amended C5 for a lower limit on a column of any sign: it fails, a
\* row that the first application left within the accuracy of the lower
\* limit is nudged by the second
C5_AnySign ==
    (pass = 2 /\ LimitsOnGrid /\ pc \in {"returned", "done"}) =>
        result = dfround(first, digits + 1)

\* the amended C5 for the sign 0, which the validation accepts: it fails
\* as for the sign -1
C5_ZeroSign ==
    (pass = 2 /\ LimitsOnGrid /\ pc \in {"returned", "done"}
        /\ \A col \in DOMAIN monotonocity :
               Has(monotonocity[col], "lower")
                   => monotonocity[col]["sign"] # Down) =>
        result = dfround(first, digits + 1)

Running(series, sign, i) ==
    CHOOSE x \in {series[j] : j \in 1..i} :
        \A j \in 1..i : IF sign.sign > 0 THEN Ge(x, series[j]) ELSE Le(x, series[j])

\* C6: clip_accumulate returns a column that is non-decreasing (sign > 0) or
\* non-increasing (sign < 0), within the limits that are present, and whose
\* row i is the running maximum (minimum) of the input rows up to i,
\* clipped to the limits.
C6_ClipAccumulate ==
    pc = "clip_accumulate" =>
        LET s    == dframe["PC"]
            m    == monotonocity["PC"]
            sign == m["sign"]
            out  == result["PC"]
        IN  /\ Len(out) = Len(s)
            /\ \A i \in 1..(Len(out) - 1) :
                  IF sign.sign > 0 THEN Le(out[i], out[i + 1])
                  ELSE Ge(out[i], out[i + 1])
            /\ \A i \in 1..Len(out) :
                  /\ Has(m, "lower") => Ge(out[i], m["lower"])
                  /\ Has(m, "upper") => Le(out[i], m["upper"])
                  /\ LET x == Running(s, sign, i)
                     IN  out[i] = IF Has(m, "lower") /\ Lt(x, m["lower"]) THEN m["lower"]
                                  ELSE IF Has(m, "upper") /\ Gt(x, m["upper"]) THEN m["upper"]
                                  ELSE x

\* a row was lifted by the running maximum and a row was clipped at upper
C6_Witness ==
    /\ pc = "clip_accumulate"
    /\ monotonocity["PC"] = inc01
    /\ Len(result["PC"]) = 3
    /\ \E i \in 1..3 : Gt(result["PC"][i], dframe["PC"][i])
    /\ \E i \in 1..3 : Lt(result["PC"][i], dframe["PC"][i])

\* C7: check_limits raises exactly when a value is above a declared upper
\* or below a declared lower limit; [0.1, 0.5, 1.2] with upper = 1.0 raises.
C7_CheckLimits ==
    pc = "check_limits" =>
        LET s == dframe["PC"]
            m == monotonocity["PC"]
        IN  /\ err = "limits" <=>
                  \E i \in 1..Len(s) :
                      \/ Has(m, "upper") /\ Gt(s[i], m["upper"])
                      \/ Has(m, "lower") /\ Lt(s[i], m["lower"])
            /\ (s = <<Lit(100 * Milli), Lit(500 * Milli), Lit(1200 * Milli)>>
                    /\ Has(m, "upper"))
                  => err = "limits"

\* a column with values equal to both limits and none outside was accepted
C7_Witness ==
    /\ pc = "check_limits"
    /\ monotonocity["PC"] = inc01
    /\ err = ""
    /\ \E i \in 1..Len(dframe["PC"]) : dframe["PC"][i] = Float(1)
    /\ \E i \in 1..Len(dframe["PC"]) : dframe["PC"][i] = Float(0)

\* the exact difference of two floats
Exact(x, y) == Sum(x, Neg(y))

\* C8: check_almost_monotone raises exactly when, for sign > 0, some
\* difference of consecutive rows is below -10^-(digits-1), or, for
\* sign < 0, some difference is above +10^-(digits-1); the threshold is
\* the float 1.0 / 10.0 ** (digits - 1), the differences are those of the
\* floats in the column.
C8_CheckAlmostMonotone ==
    pc = "check_almost_monotone" =>
        LET s    == dframe["PC"]
            sign == monotonocity["PC"]["sign"]
            thr  == allowance(digits - 1)
        IN  err = "almost_monotone" <=>
                \/ /\ sign = Up
                   /\ \E i \in 1..(Len(s) - 1) : Lt(Exact(s[i + 1], s[i]), Neg(thr))
                \/ /\ sign = Down
                   /\ \E i \in 1..(Len(s) - 1) : Gt(Exact(s[i + 1], s[i]), thr)

\* a difference equal to the threshold was accepted
C8_Witness ==
    /\ pc = "check_almost_monotone"
    /\ err = ""
    /\ monotonocity["PC"]["sign"] = Up
    /\ \E i \in 1..(Len(dframe["PC"]) - 1) :
          Exact(dframe["PC"][i + 1], dframe["PC"][i]) = Neg(allowance(digits - 1))

\* the per-column dict is one the claim says is rejected
Malformed(col) ==
    \/ ~Has(monotonocity[col], "sign")
    \/ Has(monotonocity[col], "sign") /\ monotonocity[col]["sign"] \notin {Up, Down}
    \/ ~(DOMAIN monotonocity[col] \subseteq valid_keys)
    \/ col \notin DOMAIN dframe

\* C9: validate_monotonocity_arg rejects every per-column dict whose sign is
\* missing or is not exactly +1 or -1, that has unknown keys or names a
\* column that is not in the table; the fix loop is only entered with sign
\* +1 or -1.
C9_MalformedRejected ==
    /\ (pc # "call" /\ \E col \in DOMAIN monotonocity : Malformed(col))
           => pc = "raised" /\ err = "validate"
    /\ pc = "while" => monotonocity[keys[idx]]["sign"] \in {Up, Down}

IsExample ==
    /\ dframe["PC"] = ExampleColumn
    /\ monotonocity = [PC |-> inc01]
    /\ digits = 2

\* C10: for the column of the docstring with sign = +1, lower = 0, upper = 1
\* and digits = 2 the fixer raises nothing and the result prints as
\* 0.00, 0.00, 0.01, 0.02, 0.03, 0.04, 0.99, 1.00, 1.00, 1.00.
C10_Example ==
    IsExample =>
        /\ pc # "raised"
        /\ pc = "done" => output["PC"] = <<0, 0, 1, 2, 3, 4, 99, 100, 100, 100>>

C10_Witness == IsExample /\ pc = "done" /\ iterations = 3

\* the value is closer to the limit than 10^-digits
NearLimit(x, limit, n) == Lt(FAbs(FSub(x, limit)), allowance(n))

\* C11: when df2str returns, every row of a fixed column (sign +1 or -1,
\* not skipped) whose value in the result deviates from a declared upper or
\* lower limit by less than 10^-digits prints, with `digits` decimals, as
\* that limit.
C11_ShiftedToLimit ==
    pc = "done" =>
        \A col \in DOMAIN monotonocity :
            (monotonocity[col]["sign"] \in {Up, Down} /\ ~Skipped(col)) =>
                \A i \in 1..Len(result[col]) :
                    /\ (Has(monotonocity[col], "upper")
                          /\ NearLimit(result[col][i], monotonocity[col]["upper"], digits))
                           => output[col][i] = Format(monotonocity[col]["upper"], digits)
                    /\ (Has(monotonocity[col], "lower")
                          /\ NearLimit(result[col][i], monotonocity[col]["lower"], digits))
                           => output[col][i] = Format(monotonocity[col]["lower"], digits)

\* the scalars that interpolate_wo / interpolate_go blend: the value of the
\* low curve, the value of the high curve, the blend given to the new curve
Blended ==
    IF fn = "interpolate_wo"
    THEN { <<low.swl, high.swl, new.swl>>,
           <<low.swcr, high.swcr, new.swcr>>,
           <<low.sorw, high.sorw, new.sorw>>,
           <<smax(low.table.krw), smax(high.table.krw), new.krwmax>>,
           <<Call(normalizers.krw1, Float(1)), Call(normalizers.krw2, Float(1)),
             new.krwend>>,
           <<Call(normalizers.kro1, Float(1)), Call(normalizers.kro2, Float(1)),
             new.kroend>> }
    ELSE { <<low.swl, high.swl, new.swl>>,
           <<low.sgcr, high.sgcr, new.sgcr>>,
           <<low.sorg, high.sorg, new.sorg>>,
           <<smax(low.table.krg), smax(high.table.krg), new.krgmax>>,
           <<Call(normalizers.krg1, Float(1)), Call(normalizers.krg2, Float(1)),
             new.krgend>>,
           <<Call(normalizers.kro1, Float(1)), Call(normalizers.kro2, Float(1)),
             new.kroend>> }

\* t = 0 gives the value of the low curve, t = 1 that of the high curve,
\* and the blend is the float a * (1.0 - t) + b * t
BoundaryLaw(a, b, v) ==
    /\ parameter = 0 => v = a
    /\ parameter = Unit => v = b
    /\ v = weighted_value(a, b, D(parameter))

\* C12 as stated: with t = 0 the blended endpoints given to the new curve
\* are those of the low curve, with t = 1 those of the high curve, each is
\* low * (1 - t) + high * t and lies between the two input values.
C12_BlendLaw ==
    pc \in {"tag", "returned"} =>
        \A s \in Blended :
            /\ BoundaryLaw(s[1], s[2], s[3])
            /\ Ge(s[3], FMin(s[1], s[2]))
            /\ Le(s[3], FMax(s[1], s[2]))

\* x * 2^-51, the bound on the relative error of three roundings
Tolerance(x) == [x EXCEPT !.e = @ - (MantissaBits - 1)]

\* C12 as amended: with t = 0 the blended endpoints are those of the low
\* curve, with t = 1 those of the high curve, exactly; for every t in [0,1]
\* each is the float low * (1.0 - t) + high * t, which lies between the two
\* input values up to a relative rounding error of 2^-51.
C12_BlendLawRounded ==
    pc \in {"tag", "returned"} =>
        \A s \in Blended :
            LET lo  == FMin(s[1], s[2])
                hi  == FMax(s[1], s[2])
                tol == Tolerance(FMax(FAbs(s[1]), FAbs(s[2])))
            IN  /\ BoundaryLaw(s[1], s[2], s[3])
                /\ FCmp(s[3], Sum(lo, Neg(tol))) >= 0
                /\ FCmp(s[3], Sum(hi, tol)) <= 0

\* two curves with the same swl were blended at t = 0.2 and the new swl is
\* not that value
C12_Witness ==
    /\ pc = "returned"
    /\ parameter = 200
    /\ low # high
    /\ low.swl = high.swl
    /\ new.swl # low.swl

\* the pc value that flat extrapolation to the nearest observed extreme
\* gives at the normalized argument sxn: the first row (smallest
\* saturation) below 0, the last row (largest saturation) above 1, the
\* linear interpolant in between
NearestExtreme(c, sxn) ==
    evaluate(interp1d(c.table[sat_col(c)], c.table.pc,
                      <<c.table.pc[1], c.table.pc[Len(c.table.pc)]>>),
             sx_fn(c, D(sxn)))

\* C13: the function that normalize_pc returns is constant zero when the
\* table has no pc column; otherwise it is the linear interpolant of pc on
\* [0, 1], the pc of the row with the smallest saturation below 0 and the
\* pc of the row with the largest saturation above 1, whichever way the pc
\* column runs.
C13_FlatToNearestExtreme ==
    pc = "normalize_pc" =>
        \A sxn \in NormArgs :
            result[sxn] = IF Has(curve.table, "pc")
                          THEN NearestExtreme(curve, sxn)
                          ELSE Zero

\* C14: the curve that interpolate_wo / interpolate_go returns carries the
\* tag argument as it is whenever the argument is not None, the empty
\* string too; without a tag argument it carries "Interpolated to t in
\* tag" when both inputs have the same tag and the tag is not empty,
\* "Interpolated to t" when both tags are empty, and "Interpolated to t
\* between tagA and tagB" when the tags differ. No step changes the input
\* curves, their tags included.
C14_Tags ==
    /\ [](pc = "returned" =>
            /\ result.tag = new.tag
            /\ ~Has(tag, "none") => new.tag = tag.str
            /\ (Has(tag, "none") /\ low.tag = high.tag /\ low.tag # <<>>) =>
                   new.tag = <<"Interpolated to ">> \o format(parameter)
                                 \o <<" in ">> \o low.tag
            /\ (Has(tag, "none") /\ low.tag = <<>> /\ high.tag = <<>>) =>
                   new.tag = <<"Interpolated to ">> \o format(parameter)
            /\ (Has(tag, "none") /\ low.tag # high.tag) =>
                   new.tag = <<"Interpolated to ">> \o format(parameter)
                                 \o <<" between ">> \o low.tag
                                 \o <<" and ">> \o high.tag)
    /\ [][(fn \in {"interpolate_wo", "interpolate_go"})
               => (low' = low /\ high' = high)]_vars

\* a curve between two curves of different tags, no tag given
C14_Witness ==
    /\ pc = "returned"
    /\ tag = None
    /\ low.tag = <<"A">>
    /\ high.tag = <<"B">>
    /\ parameter = 200
    /\ result.tag = <<"Interpolated to ", "0", ".", "2", " between ", "A", " and ", "B">>

\* an input is not a curve of the type the function expects, or the
\* parameter is outside [0, 1]
Refused ==
    \/ ~(low.kind = IF fn = "interpolate_wo" THEN "WaterOil" ELSE "GasOil")
    \/ ~(high.kind = IF fn = "interpolate_wo" THEN "WaterOil" ELSE "GasOil")
    \/ parameter < 0
    \/ parameter > Unit

\* C15: when an input of interpolate_wo / interpolate_go is not of the
\* expected curve type, or the parameter is below 0 or above 1, the call
\* fails with the error of its argument checks before a normalizer is
\* built and before a new curve is constructed, and returns no curve.
C15_RefusedBeforeWork ==
    (fn \in {"interpolate_wo", "interpolate_go"} /\ pc # "call" /\ Refused) =>
        /\ pc = "raised"
        /\ err = "AssertionError"
        /\ normalizers = <<>>
        /\ new = NoCurve
        /\ result = NoCurve

\* two water-oil curves and a parameter above 1: the call has failed
C15_Witness ==
    /\ pc = "raised"
    /\ fn = "interpolate_wo"
    /\ low = W1
    /\ high = W2
    /\ parameter = 1100

\* C16: estimate_diffjumppoint and crosspoint are pure functions of their
\* table argument: a call leaves the caller's table with the columns and
\* the cell values it had before the call.
C16_TableUnchanged ==
    [][(pc = "call" /\ fn \in {"estimate_diffjumppoint", "crosspoint"})
           => dframe' = dframe]_vars

\* every column of the monotonocity argument has sign +1 or -1 and limits
\* in order
WellFormed ==
    \A col \in DOMAIN monotonocity :
        LET m == monotonocity[col]
        IN  /\ Has(m, "sign")
            /\ m["sign"] \in {Up, Down}
            /\ (Has(m, "lower") /\ Has(m, "upper")) => Le(m["lower"], m["upper"])

\* C17: with a validated argument whose signs are +1 or -1 and whose limits
\* are in order, and columns that pass check_almost_monotone and
\* check_limits after rounding, the fix loop empties its fix set within
\* the budget and the final check passes: neither the too-many-iterations
\* error nor the "not possible to make column monotonic" error is raised.
C17_WellFormedNeverFails ==
    (WellFormed /\ pc = "raised") => err \notin {"iterations", "final"}

\* the column of the fix loop, and the same column of the input rounded to
\* digits + 1 decimals
LoopColumn == keys[idx]
Rounded == sround(dframe[LoopColumn], digits + 1)

\* row i of series s is not behind row i of series r in the direction sgn
NotBehind(s, r, sgn, i) == IF sgn.sign > 0 THEN Ge(s[i], r[i]) ELSE Le(s[i], r[i])

\* C18: in the fix loop of a column with sign +1 or -1 that passed
\* check_limits, after every pass each row is at or beyond its rounded
\* input value in the direction of sign, every value is within the
\* declared limits, the column is non-decreasing (sign +1) or
\* non-increasing (sign -1), and the first row has its rounded input
\* value; a pass moves no value against the direction of sign.
C18_LoopInvariant ==
    /\ []((pc = "while" /\ passes >= 1
                /\ monotonocity[LoopColumn]["sign"] \in {Up, Down}) =>
            LET m    == monotonocity[LoopColumn]
                sign == m["sign"]
                s    == Cur[LoopColumn]
            IN  /\ \A i \in 1..Len(s) :
                      /\ NotBehind(s, Rounded, sign, i)
                      /\ Has(m, "lower") => Ge(s[i], m["lower"])
                      /\ Has(m, "upper") => Le(s[i], m["upper"])
                /\ \A i \in 1..(Len(s) - 1) :
                      IF sign.sign > 0 THEN Le(s[i], s[i + 1]) ELSE Ge(s[i], s[i + 1])
                /\ Len(s) > 0 => s[1] = Rounded[1])
    /\ [][(pc = "while" /\ pc' = "while"
                /\ monotonocity[LoopColumn]["sign"] \in {Up, Down}) =>
            \A i \in 1..Len(Cur[LoopColumn]) :
                NotBehind(Cur'[LoopColumn], Cur[LoopColumn],
                          monotonocity[LoopColumn]["sign"], i)]_vars

\* two passes have run on a rising column with both limits, and a row has
\* moved up
C18_Witness ==
    /\ pc = "while"
    /\ passes >= 2
    /\ monotonocity[LoopColumn] = inc01
    /\ \E i \in 1..Len(Rounded) : Gt(Cur[LoopColumn][i], Rounded[i])

============================================================================

